---- MODULE Spec2Model ----
(***************************************************************************)
(* A model of app.py (oliweira/api_posts): the Flask handlers for posts    *)
(* and products, the upload helpers save_file / delete_file, the rows of   *)
(* the three tables and the files of the two upload folders.               *)
(*                                                                         *)
(* Strings.  A Python string is a sequence of atoms.  An atom is a run of  *)
(* characters; every character the code looks at ('/', '.', '_', ',',      *)
(* ' ', 'Z') is an atom of its own, so split('/'), rsplit('.', 1),         *)
(* startswith('http'), lower() and secure_filename act on atoms.  Uploaded *)
(* file names are written character by character.                          *)
(* Python's None is the value None below, different from every string,     *)
(* the empty string '' included (<<>>).                                    *)
(***************************************************************************)
EXTENDS Integers, Sequences, FiniteSets, TLC

VARIABLES
    posts,          \* table post: id -> row
    nextPostId,     \* AUTO_INCREMENT of post.id
    products,       \* table product: id -> row
    media,          \* table product_media: set of rows
    nextProductId,  \* AUTO_INCREMENT of product.id
    nextMediaId,    \* AUTO_INCREMENT of product_media.id
    files,          \* the files on disk under uploads/: set of paths
    nextToken,      \* the uuid4() values drawn so far + 1
    response,       \* the response to the last request
    removed,        \* history: the paths os.remove() has deleted
    returned,       \* history: post id -> the path save_file returned to create_post
    now,            \* the wall clock
    workers,        \* concurrent update_post requests: worker -> its locals
    call            \* a pending / finished direct call of save_file

vars == <<posts, nextPostId, products, media, nextProductId, nextMediaId,
          files, nextToken, response, removed, returned, now, workers, call>>

postVars == <<posts, nextPostId, returned>>
productVars == <<products, media, nextProductId, nextMediaId>>

----------------------------------------------------------------------------
(* Bounds of the model *)

MaxPosts == 2
MaxProducts == 2
MaxUploads == 2
MaxTime == 2
MaxNameLen == 5

----------------------------------------------------------------------------
(* Python values *)

None == <<"None">>

Truthy(s) == s # None /\ s # <<>>

Range(s) == {s[i] : i \in 1..Len(s)}

Min(S) == CHOOSE m \in S : \A n \in S : m <= n

Max(S) == CHOOSE m \in S : \A n \in S : m >= n

\* str.lower() on one character
lower_char(c) ==
    CASE c = "P" -> "p" [] c = "N" -> "n" [] c = "G" -> "g" [] c = "I" -> "i"
      [] c = "F" -> "f" [] c = "J" -> "j" [] c = "E" -> "e" [] c = "M" -> "m"
      [] c = "O" -> "o" [] c = "V" -> "v" [] c = "A" -> "a" [] c = "X" -> "x"
      [] OTHER -> c

lower(s) == [i \in 1..Len(s) |-> lower_char(s[i])]

\* s.split(sep)
RECURSIVE split(_, _)
split(s, sep) ==
    LET at == {i \in 1..Len(s) : s[i] = sep}
    IN  IF at = {} THEN <<s>>
        ELSE <<SubSeq(s, 1, Min(at) - 1)>>
                 \o split(SubSeq(s, Min(at) + 1, Len(s)), sep)

\* s.rsplit(sep, 1)
rsplit1(s, sep) ==
    LET at == {i \in 1..Len(s) : s[i] = sep}
    IN  IF at = {} THEN <<s>>
        ELSE <<SubSeq(s, 1, Max(at) - 1), SubSeq(s, Max(at) + 1, Len(s))>>

\* s.replace(old, new) for a one-atom old
replace(s, old, new) == [i \in 1..Len(s) |-> IF s[i] = old THEN new ELSE s[i]]

\* sep.join(list)
RECURSIVE join(_, _)
join(sep, list) ==
    IF list = <<>> THEN <<>>
    ELSE IF Len(list) = 1 THEN list[1]
    ELSE list[1] \o <<sep>> \o join(sep, Tail(list))

startswith_http(s) == Len(s) >= 1 /\ s[1] = "http"

\* os.path.join(a, b) for a relative b
os_path_join(a, b) == a \o <<"/">> \o b

\* os.path.basename(p)
os_path_basename(p) == LET parts == split(p, "/") IN parts[Len(parts)]

----------------------------------------------------------------------------
(* Configuration *)

BACKEND_BASE_URL == <<"http", ":", "/", "/", "localhost:5000">>

UPLOAD_FOLDER_POSTS == <<"uploads", "/", "posts">>

UPLOAD_FOLDER_PRODUCTS == <<"uploads", "/", "products">>

ALLOWED_EXTENSIONS ==
    { <<"p", "n", "g">>, <<"j", "p", "g">>, <<"j", "p", "e", "g">>,
      <<"g", "i", "f">>, <<"m", "p", "4">>, <<"m", "o", "v">>,
      <<"a", "v", "i">> }

----------------------------------------------------------------------------
(* werkzeug.utils.secure_filename, on ASCII names: path separators become  *)
(* spaces, runs of whitespace become one '_', every character outside      *)
(* [A-Za-z0-9_.-] is dropped, and leading and trailing '.' and '_' are     *)
(* stripped.                                                               *)

FilenameChars ==
    {"a", "b", "x", "e", "p", "n", "g", "j", "i", "f", "m", "o", "v", "4",
     "P", "N", "G", "J", "I", "F", "E", "M", "O", "V", "A", "X",
     ".", "_", "-"}

\* s.split(): the maximal runs of characters that are not whitespace
RECURSIVE words(_)
words(s) ==
    IF s = <<>> THEN <<>>
    ELSE IF Head(s) = " " THEN words(Tail(s))
    ELSE LET sp == {i \in 1..Len(s) : s[i] = " "}
         IN  IF sp = {} THEN <<s>>
             ELSE <<SubSeq(s, 1, Min(sp) - 1)>>
                      \o words(SubSeq(s, Min(sp), Len(s)))

RECURSIVE strip_dots(_)
strip_dots(s) ==
    IF s = <<>> THEN <<>>
    ELSE IF Head(s) \in {".", "_"} THEN strip_dots(Tail(s))
    ELSE IF s[Len(s)] \in {".", "_"} THEN strip_dots(SubSeq(s, 1, Len(s) - 1))
    ELSE s

secure_filename(filename) ==
    LET spaced == replace(filename, "/", " ")
        joined == join("_", words(spaced))
        kept   == SelectSeq(joined, LAMBDA c : c \in FilenameChars)
    IN  strip_dots(kept)

----------------------------------------------------------------------------
(* Upload helpers *)

\* An uploaded file (werkzeug FileStorage); a form without the key has none
NoFile == [present |-> FALSE, filename |-> <<>>, mimetype |-> <<>>]

Upload(filename, mimetype) ==
    [present |-> TRUE, filename |-> filename, mimetype |-> mimetype]

\* uuid.uuid4().hex: the n-th value drawn, different from all before it
uuid4_hex(n) == <<"u" \o ToString(n)>>

\* allowed_file comparing the extension as it is written
allowed_file_exact(filename) ==
    /\ "." \in Range(filename)
    /\ rsplit1(filename, ".")[2] \in ALLOWED_EXTENSIONS

allowed_file(filename) ==
    /\ "." \in Range(filename)
    /\ lower(rsplit1(filename, ".")[2]) \in ALLOWED_EXTENSIONS

\* save_file(file, upload_folder) on the disk `disk`, uuid4() giving `token`:
\* what it returns and the disk it leaves
save_file(file, upload_folder, token, disk) ==
    IF file.filename # <<>> /\ allowed_file(file.filename)
    THEN LET filename_base   == secure_filename(file.filename)
             unique_filename == token \o <<"_">> \o filename_base
             filepath        == os_path_join(upload_folder, unique_filename)
         IN  [ret   |-> os_path_basename(upload_folder) \o <<"/">>
                            \o unique_filename,
              disk  |-> disk \cup {filepath},
              drawn |-> 1]
    ELSE [ret |-> None, disk |-> disk, drawn |-> 0]

\* delete_file looking for every file under uploads/products
delete_file_wrong_folder(filepath_relative, disk) ==
    LET parts == split(filepath_relative, "/")
        no    == [ret |-> FALSE, disk |-> disk, gone |-> {}]
    IN  IF ~Truthy(filepath_relative) \/ Len(parts) < 2 THEN no
        ELSE LET full_path == os_path_join(UPLOAD_FOLDER_PRODUCTS, parts[2])
             IN  IF full_path \in disk
                 THEN [ret |-> TRUE, disk |-> disk \ {full_path},
                       gone |-> {full_path}]
                 ELSE no

\* delete_file(filepath_relative) on the disk `disk`: what it returns, the
\* disk it leaves and the paths it removed
delete_file(filepath_relative, disk) ==
    LET parts == split(filepath_relative, "/")
        no    == [ret |-> FALSE, disk |-> disk, gone |-> {}]
    IN  IF ~Truthy(filepath_relative) THEN no
        ELSE IF Len(parts) < 2 THEN no
        ELSE LET folder_name   == parts[1]
                 filename_only == parts[2]
                 full_path ==
                     IF folder_name = <<"posts">>
                     THEN os_path_join(UPLOAD_FOLDER_POSTS, filename_only)
                     ELSE IF folder_name = <<"products">>
                     THEN os_path_join(UPLOAD_FOLDER_PRODUCTS, filename_only)
                     ELSE None
             IN  IF full_path # None /\ full_path \in disk
                 THEN [ret |-> TRUE, disk |-> disk \ {full_path},
                       gone |-> {full_path}]
                 ELSE no

\* get_full_media_url of Post and of ProductMedia
get_full_media_url(relative_path) ==
    IF Truthy(relative_path)
    THEN BACKEND_BASE_URL \o <<"/", "uploads", "/">> \o relative_path
    ELSE None

----------------------------------------------------------------------------
(* Dates.  A datetime is <<"dt", n>>, the n-th day of the model's calendar.*)

datetime(n) == <<"dt", n>>

\* datetime.isoformat()
isoformat(d) == <<"2025-01-0" \o ToString(d[2]), "T", "09:00:00">>

\* datetime.fromisoformat(s): the datetime, or None for a ValueError.  An
\* offset "+00:00" is parsed and then dropped by the DateTime column.
fromisoformat(s) ==
    LET days == {n \in 1..MaxTime :
                    s \in {isoformat(datetime(n)),
                           isoformat(datetime(n)) \o <<"+00:00">>}}
    IN  IF days = {} THEN None ELSE datetime(CHOOSE n \in days : TRUE)

----------------------------------------------------------------------------
(* Post *)

\* Post(...) stamped as published when it is created
Post_stamped(id, legenda, tipo_midia, url_midia, plataformas, data_agendamento) ==
    [id               |-> id,
     legenda          |-> legenda,
     tipo_midia       |-> tipo_midia,
     url_midia        |-> url_midia,
     plataformas      |-> join(",", plataformas),
     data_agendamento |-> data_agendamento,
     status           |-> <<"agendado">>,
     data_publicacao  |-> data_agendamento]

\* Post(legenda=..., tipo_midia=..., url_midia=..., plataformas=...,
\*      data_agendamento=..., status='agendado') as the row inserted
Post(id, legenda, tipo_midia, url_midia, plataformas, data_agendamento) ==
    [id               |-> id,
     legenda          |-> legenda,
     tipo_midia       |-> tipo_midia,
     url_midia        |-> url_midia,
     plataformas      |-> join(",", plataformas),
     data_agendamento |-> data_agendamento,
     status           |-> <<"agendado">>,
     data_publicacao  |-> None]

\* Post.to_dict
Post_to_dict(post) ==
    [id               |-> post.id,
     legenda          |-> post.legenda,
     tipo_midia       |-> post.tipo_midia,
     url_midia        |-> IF Truthy(post.url_midia)
                             /\ ~startswith_http(post.url_midia)
                          THEN get_full_media_url(post.url_midia)
                          ELSE post.url_midia,
     plataformas      |-> post.plataformas,
     data_agendamento |-> isoformat(post.data_agendamento),
     status           |-> post.status,
     data_publicacao  |-> IF post.data_publicacao # None
                          THEN isoformat(post.data_publicacao)
                          ELSE None]

\* The rows of Post.query.all(): no ORDER BY, the rows come in the order of
\* the primary key
RECURSIVE query_all(_, _)
query_all(table, ids) ==
    IF ids = {} THEN <<>>
    ELSE <<table[Min(ids)]>> \o query_all(table, ids \ {Min(ids)})

\* A response: the handler that answered and its status code.  The JSON a
\* response renders is that of the rows right after the request (see
\* get_posts_json).
Response(op, code) == [op |-> op, code |-> code]

\* get_or_404 / first_or_404 when no row matches
NotFound(op) == Response(op, 404)

\* db.session.commit() raised: Flask answers 500, the session is discarded
ServerError(op) == Response(op, 500)

\* not all([legenda, tipo_midia, plataformas, data_agendamento_str])
missing_post_fields(legenda, tipo_midia, plataformas, data_agendamento_str) ==
    ~(/\ Truthy(legenda)
      /\ Truthy(tipo_midia)
      /\ plataformas # <<>>
      /\ Truthy(data_agendamento_str))

parse_data_agendamento(data_agendamento_str) ==
    fromisoformat(replace(data_agendamento_str, "Z", "+00:00"))

----------------------------------------------------------------------------
(* Requests.  A request to /posts carries request.form (legenda,           *)
(* tipo_midia, the list plataformas, data_agendamento, url_midia; None for *)
(* a key the form lacks) and request.files['media_file'].                  *)

Request(legenda, tipo_midia, plataformas, data_agendamento, url_midia, media_file) ==
    [legenda          |-> legenda,
     tipo_midia       |-> tipo_midia,
     plataformas      |-> plataformas,
     data_agendamento |-> data_agendamento,
     url_midia        |-> url_midia,
     media_file       |-> media_file]

AllowedName == <<"a", " ", "b", ".", "P", "N", "G">>

RefusedName == <<"x", ".", "e", "x", "e">>

AllowedUpload == Upload(AllowedName, <<"image", "/", "png">>)

RefusedUpload == Upload(RefusedName, <<"application", "/", "octet-stream">>)

EmptyUpload == Upload(<<>>, <<"application", "/", "octet-stream">>)

ExternalUrl == <<"http", ":", "/", "/", "cdn", "/", "v", ".", "mp4">>

TwoPlatforms == << <<"instagram">>, <<"whatsapp">> >>

\* The media parts of a request: <<url_midia of the form, media_file>>
MediaParts ==
    { <<None, NoFile>>, <<<<>>, NoFile>>, <<ExternalUrl, NoFile>>,
      <<None, AllowedUpload>>, <<None, RefusedUpload>>, <<None, EmptyUpload>> }

PlainParts == { <<None, NoFile>>, <<ExternalUrl, NoFile>> }

\* Requests with every required field, scheduled on one of `days`
ValidRequests(days, parts) ==
    { Request(<<"ola">>, <<"imagem">>, TwoPlatforms, isoformat(datetime(n)),
              part[1], part[2]) : n \in days, part \in parts }

\* The same day written with a trailing Z
ZuluRequest ==
    Request(<<"ola">>, <<"imagem">>, << <<"instagram">> >>,
            isoformat(datetime(1)) \o <<"Z">>, None, NoFile)

\* Requests the validation refuses
InvalidRequests ==
    { Request(None, <<"imagem">>, TwoPlatforms, isoformat(datetime(1)),
              None, AllowedUpload),
      Request(<<"ola">>, <<"imagem">>, <<>>, isoformat(datetime(1)),
              None, AllowedUpload),
      Request(<<"ola">>, <<"imagem">>, TwoPlatforms, <<"amanha">>,
              None, AllowedUpload) }

\* A call: a request and whether the commit it may reach succeeds
MediaCalls ==
    (ValidRequests({1}, MediaParts) \X BOOLEAN)
        \cup (InvalidRequests \X {TRUE})

DatedCalls ==
    (ValidRequests(1..MaxTime, PlainParts) \cup {ZuluRequest}) \X {TRUE}

----------------------------------------------------------------------------
(* Routes for posts.  Each action is one request, handled to its response. *)
(* commit_ok says whether db.session.commit() succeeds or raises.          *)

is_upload(media_file) == media_file.present /\ media_file.filename # <<>>

is_local(url_midia) == Truthy(url_midia) /\ ~startswith_http(url_midia)

\* jsonify([post.to_dict() for post in posts]) of get_posts
get_posts_json(table) ==
    LET rows == query_all(table, DOMAIN table)
    IN  [i \in 1..Len(rows) |-> Post_to_dict(rows[i])]

get_posts ==
    /\ response' = Response("get_posts", 200)
    /\ UNCHANGED <<postVars, productVars, files, nextToken, removed, now,
                   workers, call>>

create_post(request, commit_ok) ==
    LET op == "create_post"
        legenda == request.legenda
        tipo_midia == request.tipo_midia
        plataformas == request.plataformas
        data_agendamento_str == request.data_agendamento
        media_file == request.media_file
        data_agendamento == parse_data_agendamento(data_agendamento_str)
        saved == save_file(media_file, UPLOAD_FOLDER_POSTS,
                           uuid4_hex(nextToken), files)
        url_midia ==
            IF media_file.present
            THEN (IF media_file.filename # <<>> THEN saved.ret ELSE None)
            ELSE IF Truthy(request.url_midia) THEN request.url_midia ELSE None
        new_post == Post(nextPostId, legenda, tipo_midia, url_midia,
                         plataformas, data_agendamento)
    IN  /\ nextPostId <= MaxPosts
        /\ IF missing_post_fields(legenda, tipo_midia, plataformas,
                                  data_agendamento_str)
           THEN /\ response' = Response(op, 400)
                /\ UNCHANGED <<postVars, files, nextToken>>
           ELSE IF data_agendamento = None
           THEN /\ response' = Response(op, 400)
                /\ UNCHANGED <<postVars, files, nextToken>>
           ELSE IF is_upload(media_file) /\ saved.ret = None
           THEN /\ response' = Response(op, 400)
                /\ UNCHANGED <<postVars, files, nextToken>>
           ELSE /\ is_upload(media_file) => nextToken <= MaxUploads
                /\ files' = IF is_upload(media_file) THEN saved.disk ELSE files
                /\ nextToken' = IF is_upload(media_file)
                                THEN nextToken + saved.drawn ELSE nextToken
                /\ IF commit_ok
                   THEN /\ posts' = posts @@ (nextPostId :> new_post)
                        /\ nextPostId' = nextPostId + 1
                        /\ returned' = IF is_upload(media_file)
                                       THEN returned @@ (nextPostId :> saved.ret)
                                       ELSE returned
                        /\ response' = Response(op, 201)
                   ELSE /\ response' = ServerError(op)
                        /\ UNCHANGED postVars
        /\ UNCHANGED <<productVars, removed, now, workers, call>>

\* The media part of update_post on the disk `disk`: whether the request is
\* refused, the url_midia the row gets, the disk it leaves, the paths removed
\* and the uuids drawn
update_post_media(existing_url_midia, media_file, new_url_midia_form, token, disk) ==
    LET keep == [ret |-> FALSE, disk |-> disk, gone |-> {}]
        old  == IF is_local(existing_url_midia)
                THEN delete_file(existing_url_midia, disk) ELSE keep
        saved == save_file(media_file, UPLOAD_FOLDER_POSTS, token, old.disk)
    IN  IF is_upload(media_file)
        THEN [refused   |-> saved.ret = None,
              url_midia |-> IF saved.ret # None THEN saved.ret
                            ELSE existing_url_midia,
              disk  |-> saved.disk, gone |-> old.gone, drawn |-> saved.drawn]
        ELSE IF new_url_midia_form = <<>>
        THEN [refused |-> FALSE, url_midia |-> None,
              disk |-> old.disk, gone |-> old.gone, drawn |-> 0]
        ELSE IF Truthy(new_url_midia_form)
                /\ new_url_midia_form # existing_url_midia
        THEN [refused |-> FALSE, url_midia |-> new_url_midia_form,
              disk |-> old.disk, gone |-> old.gone, drawn |-> 0]
        ELSE [refused |-> FALSE, url_midia |-> existing_url_midia,
              disk |-> disk, gone |-> {}, drawn |-> 0]

update_post(id, request, commit_ok) ==
    LET op == "update_post"
        legenda == request.legenda
        tipo_midia == request.tipo_midia
        plataformas == request.plataformas
        data_agendamento_str == request.data_agendamento
        data_agendamento == parse_data_agendamento(data_agendamento_str)
        post == posts[id]
        m == update_post_media(post.url_midia, request.media_file,
                               request.url_midia, uuid4_hex(nextToken), files)
        updated == [post EXCEPT !.url_midia = m.url_midia,
                                !.legenda = legenda,
                                !.tipo_midia = tipo_midia,
                                !.plataformas = join(",", plataformas),
                                !.data_agendamento = data_agendamento]
    IN  /\ IF id \notin DOMAIN posts
           THEN /\ response' = NotFound(op)
                /\ UNCHANGED <<posts, files, nextToken, removed>>
           ELSE IF missing_post_fields(legenda, tipo_midia, plataformas,
                                       data_agendamento_str)
           THEN /\ response' = Response(op, 400)
                /\ UNCHANGED <<posts, files, nextToken, removed>>
           ELSE IF data_agendamento = None
           THEN /\ response' = Response(op, 400)
                /\ UNCHANGED <<posts, files, nextToken, removed>>
           ELSE /\ m.drawn = 1 => nextToken <= MaxUploads
                /\ files' = m.disk
                /\ removed' = removed \cup m.gone
                /\ nextToken' = nextToken + m.drawn
                /\ IF m.refused
                   THEN /\ response' = Response(op, 400)
                        /\ UNCHANGED posts
                   ELSE IF commit_ok
                   THEN /\ posts' = [posts EXCEPT ![id] = updated]
                        /\ response' = Response(op, 200)
                   ELSE /\ response' = ServerError(op)
                        /\ UNCHANGED posts
        /\ UNCHANGED <<nextPostId, returned, productVars, now, workers, call>>

delete_post(id, commit_ok) ==
    LET op == "delete_post"
        post == posts[id]
        old == IF is_local(post.url_midia)
               THEN delete_file(post.url_midia, files)
               ELSE [ret |-> FALSE, disk |-> files, gone |-> {}]
    IN  /\ IF id \notin DOMAIN posts
           THEN /\ response' = NotFound(op)
                /\ UNCHANGED <<posts, files, removed>>
           ELSE /\ files' = old.disk
                /\ removed' = removed \cup old.gone
                /\ IF commit_ok
                   THEN /\ posts' = [i \in DOMAIN posts \ {id} |-> posts[i]]
                        /\ response' = Response(op, 200)
                   ELSE /\ response' = ServerError(op)
                        /\ UNCHANGED posts
        /\ UNCHANGED <<nextPostId, returned, nextToken, productVars, now,
                       workers, call>>

----------------------------------------------------------------------------
(* Product and ProductMedia *)

Digits == {"0", "1", "2", "3", "4", "5", "6", "7", "8", "9"}

\* float(s) for plain decimal literals: the float as Python prints it
\* (str(10.0) is '10.0'), or None for a ValueError
float(s) ==
    IF /\ s # None /\ s # <<>>
       /\ Range(s) \subseteq Digits \cup {"."}
       /\ Cardinality({i \in 1..Len(s) : s[i] = "."}) <= 1
       /\ Range(s) \cap Digits # {}
    THEN IF "." \in Range(s) THEN s ELSE s \o <<".", "0">>
    ELSE None

\* int(s) for plain decimal literals, or None for a ValueError
int(s) ==
    IF s # None /\ s # <<>> /\ Range(s) \subseteq Digits THEN s ELSE None

\* Product(name=..., description=..., age_classification=..., price=...,
\*         quantity=...)
Product(id, name, description, age_classification, price, quantity) ==
    [id                 |-> id,
     name               |-> name,
     description        |-> description,
     age_classification |-> age_classification,
     price              |-> price,
     quantity           |-> quantity]

\* ProductMedia(product_id=..., url_midia=..., tipo_midia=..., filename=...)
ProductMedia(id, product_id, url_midia, file) ==
    [id         |-> id,
     product_id |-> product_id,
     url_midia  |-> url_midia,
     tipo_midia |-> IF Len(file.mimetype) >= 2 /\ file.mimetype[1] = "image"
                       /\ file.mimetype[2] = "/"
                    THEN <<"imagem">> ELSE <<"video">>,
     filename   |-> secure_filename(file.filename)]

\* Product.media: the ProductMedia rows of a product
Product_media(rows, id) == {m \in rows : m.product_id = id}

\* The rows the relationship keeps without the cascade
keep_orphans(rows, id) == rows

\* cascade="all, delete-orphan": deleting the product deletes its media rows
cascade_delete(rows, id) == rows \ Product_media(rows, id)

\* The loop over request.files.getlist('media_files') of create_product and
\* update_product: the rows added, the disk left and the counters
RECURSIVE save_media_files(_, _, _, _, _)
save_media_files(list, product_id, token_n, media_n, disk) ==
    IF list = <<>>
    THEN [rows |-> {}, disk |-> disk, token_n |-> token_n, media_n |-> media_n]
    ELSE LET file  == Head(list)
             saved == save_file(file, UPLOAD_FOLDER_PRODUCTS,
                                uuid4_hex(token_n), disk)
         IN  IF file.filename = <<>> \/ saved.ret = None
             THEN save_media_files(Tail(list), product_id, token_n, media_n,
                                   disk)
             ELSE LET rest == save_media_files(Tail(list), product_id,
                                               token_n + 1, media_n + 1,
                                               saved.disk)
                  IN  [rest EXCEPT !.rows =
                          @ \cup {ProductMedia(media_n, product_id,
                                               saved.ret, file)}]

\* The loop of delete_product over product.media: the disk left and the
\* paths removed
RECURSIVE delete_media_files(_, _)
delete_media_files(rows, disk) ==
    IF rows = {} THEN [disk |-> disk, gone |-> {}]
    ELSE LET m    == CHOOSE r \in rows : TRUE
             old  == delete_file(m.url_midia, disk)
             rest == delete_media_files(rows \ {m}, old.disk)
         IN  [disk |-> rest.disk, gone |-> old.gone \cup rest.gone]

\* A request to /products: request.form (None for a key the form lacks) and
\* request.files.getlist('media_files')
ProductRequest(name, description, age_classification, price, quantity, media_files) ==
    [name               |-> name,
     description        |-> description,
     age_classification |-> age_classification,
     price              |-> price,
     quantity           |-> quantity,
     media_files        |-> media_files]

VideoUpload == Upload(<<"v", ".", "m", "p", "4">>, <<"video", "/", "mp4">>)

FileLists ==
    { <<>>, <<AllowedUpload>>, <<RefusedUpload, VideoUpload>>,
      <<EmptyUpload>> }

\* Requests create_product accepts, and requests it refuses with 400
CreateProductRequests ==
    { ProductRequest(<<"bola">>, None, <<"livre">>, <<"9", ".", "5">>,
                     <<"3">>, list) : list \in FileLists }

RefusedProductRequests ==
    { ProductRequest(None, None, <<"livre">>, <<"9", ".", "5">>, <<"3">>,
                     <<AllowedUpload>>),
      ProductRequest(<<"bola">>, None, <<"livre">>, <<"9", ",", "5">>,
                     <<"3">>, <<AllowedUpload>>),
      ProductRequest(<<"bola">>, None, <<"livre">>, <<"9", ".", "5">>,
                     <<"2", ".", "5">>, <<AllowedUpload>>) }

\* Requests update_product accepts (the form leaves every field as it is and
\* adds files), and one it refuses with 400
UpdateProductRequests ==
    { ProductRequest(None, None, None, None, None, list) : list \in FileLists }

RefusedProductUpdates ==
    { ProductRequest(None, None, None, None, <<"x">>, <<AllowedUpload>>) }

\* A request with the outcome of its commits; a refused request reaches none
CreateProductCalls ==
    (CreateProductRequests \X (0..2)) \cup (RefusedProductRequests \X {2})

UpdateProductCalls ==
    (UpdateProductRequests \X BOOLEAN) \cup (RefusedProductUpdates \X {TRUE})

\* The allowed files of a list: those that draw a uuid
drawn_by(list) ==
    Cardinality({i \in 1..Len(list) :
        list[i].filename # <<>> /\ allowed_file(list[i].filename)})

\* request.form.get(key, default)
form_get(value, default) == IF value = None THEN default ELSE value

\* create_product commits twice: commits_ok = 2 when both succeed, 1 when the
\* second raises, 0 when the first raises
create_product(request, commits_ok) ==
    LET op == "create_product"
        price == float(request.price)
        quantity == int(request.quantity)
        new_product == Product(nextProductId, request.name,
                               request.description,
                               request.age_classification, price, quantity)
        saved == save_media_files(request.media_files, nextProductId,
                                  nextToken, nextMediaId, files)
    IN  /\ nextProductId <= MaxProducts
        /\ IF ~(/\ Truthy(request.name)
                /\ Truthy(request.age_classification)
                /\ request.price # None
                /\ request.quantity # None)
           THEN /\ response' = Response(op, 400)
                /\ UNCHANGED <<productVars, files, nextToken>>
           ELSE IF price = None \/ quantity = None
           THEN /\ response' = Response(op, 400)
                /\ UNCHANGED <<productVars, files, nextToken>>
           ELSE IF commits_ok = 0
           THEN /\ response' = ServerError(op)
                /\ UNCHANGED <<productVars, files, nextToken>>
           ELSE /\ nextToken + drawn_by(request.media_files) <= MaxUploads + 1
                /\ products' = products @@ (nextProductId :> new_product)
                /\ nextProductId' = nextProductId + 1
                /\ files' = saved.disk
                /\ nextToken' = saved.token_n
                /\ IF commits_ok = 2
                   THEN /\ media' = media \cup saved.rows
                        /\ nextMediaId' = saved.media_n
                        /\ response' = Response(op, 201)
                   ELSE /\ response' = ServerError(op)
                        /\ UNCHANGED <<media, nextMediaId>>
        /\ UNCHANGED <<postVars, removed, now, workers, call>>

update_product(id, request, commit_ok) ==
    LET op == "update_product"
        product == products[id]
        price == float(form_get(request.price, product.price))
        quantity == int(form_get(request.quantity, product.quantity))
        updated == Product(id,
                           form_get(request.name, product.name),
                           form_get(request.description, product.description),
                           form_get(request.age_classification,
                                    product.age_classification),
                           price, quantity)
        saved == save_media_files(request.media_files, id, nextToken,
                                  nextMediaId, files)
    IN  /\ IF id \notin DOMAIN products
           THEN /\ response' = NotFound(op)
                /\ UNCHANGED <<productVars, files, nextToken>>
           ELSE IF price = None \/ quantity = None
           THEN /\ response' = Response(op, 400)
                /\ UNCHANGED <<productVars, files, nextToken>>
           ELSE /\ nextToken + drawn_by(request.media_files) <= MaxUploads + 1
                /\ files' = saved.disk
                /\ nextToken' = saved.token_n
                /\ UNCHANGED nextProductId
                /\ IF commit_ok
                   THEN /\ products' = [products EXCEPT ![id] = updated]
                        /\ media' = media \cup saved.rows
                        /\ nextMediaId' = saved.media_n
                        /\ response' = Response(op, 200)
                   ELSE /\ response' = ServerError(op)
                        /\ UNCHANGED <<products, media, nextMediaId>>
        /\ UNCHANGED <<postVars, removed, now, workers, call>>

delete_product_media(product_id, media_id, commit_ok) ==
    LET op == "delete_product_media"
        found == {m \in media : m.id = media_id /\ m.product_id = product_id}
        row == CHOOSE m \in found : TRUE
        old == delete_file(row.url_midia, files)
    IN  /\ IF found = {}
           THEN /\ response' = NotFound(op)
                /\ UNCHANGED <<media, files, removed>>
           ELSE /\ files' = old.disk
                /\ removed' = removed \cup old.gone
                /\ IF commit_ok
                   THEN /\ media' = media \ {row}
                        /\ response' = Response(op, 200)
                   ELSE /\ response' = ServerError(op)
                        /\ UNCHANGED media
        /\ UNCHANGED <<products, nextProductId, nextMediaId, nextToken,
                       postVars, now, workers, call>>

delete_product(id, commit_ok) ==
    LET op == "delete_product"
        old == delete_media_files(Product_media(media, id), files)
    IN  /\ IF id \notin DOMAIN products
           THEN /\ response' = NotFound(op)
                /\ UNCHANGED <<products, media, files, removed>>
           ELSE /\ files' = old.disk
                /\ removed' = removed \cup old.gone
                /\ IF commit_ok
                   THEN /\ products' = [i \in DOMAIN products \ {id} |->
                                           products[i]]
                        /\ media' = cascade_delete(media, id)
                        /\ response' = Response(op, 200)
                   ELSE /\ response' = ServerError(op)
                        /\ UNCHANGED <<products, media>>
        /\ UNCHANGED <<nextProductId, nextMediaId, nextToken, postVars, now,
                       workers, call>>

----------------------------------------------------------------------------
(* Specifications *)

NoResponse == Response("", 0)

\* No direct call of save_file is pending
NoCall == [file |-> NoFile, upload_folder |-> <<>>, done |-> TRUE, ret |-> None]

Init ==
    /\ posts = <<>>
    /\ nextPostId = 1
    /\ products = <<>>
    /\ media = {}
    /\ nextProductId = 1
    /\ nextMediaId = 1
    /\ files = {}
    /\ nextToken = 1
    /\ response = NoResponse
    /\ removed = {}
    /\ returned = <<>>
    /\ now = 0
    /\ workers = <<>>
    /\ call = NoCall

\* The routes that change posts, with every kind of media part
Next ==
    \/ \E c \in MediaCalls : create_post(c[1], c[2])
    \/ \E id \in 1..MaxPosts, c \in MediaCalls : update_post(id, c[1], c[2])
    \/ \E id \in 1..MaxPosts, commit_ok \in BOOLEAN : delete_post(id, commit_ok)

Spec == Init /\ [][Next]_vars

\* The wall clock advances
Tick ==
    /\ now < MaxTime
    /\ now' = now + 1
    /\ UNCHANGED <<postVars, productVars, files, nextToken, response, removed,
                   workers, call>>

\* The routes for posts, GET /posts included, with every scheduled day
ListNext ==
    \/ get_posts
    \/ \E c \in DatedCalls : create_post(c[1], c[2])
    \/ \E id \in 1..MaxPosts, c \in DatedCalls : update_post(id, c[1], c[2])
    \/ \E id \in 1..MaxPosts : delete_post(id, TRUE)

ListSpec == Init /\ [][ListNext]_vars

\* The same routes while time passes.  The clock is the only thing that is
\* bound to move: no client has to send a request.
ClockNext == ListNext \/ Tick

FairSpec == Init /\ [][ClockNext]_vars /\ WF_vars(Tick)

\* The routes for products
ProductNext ==
    \/ \E c \in CreateProductCalls : create_product(c[1], c[2])
    \/ \E id \in 1..MaxProducts, c \in UpdateProductCalls :
            update_product(id, c[1], c[2])
    \/ \E product_id \in 1..MaxProducts, media_id \in 1..MaxUploads,
          commit_ok \in BOOLEAN :
            delete_product_media(product_id, media_id, commit_ok)
    \/ \E id \in 1..MaxProducts, commit_ok \in BOOLEAN :
            delete_product(id, commit_ok)

ProductSpec == Init /\ [][ProductNext]_vars

----------------------------------------------------------------------------
(* save_file called directly, on every file name of up to MaxNameLen       *)
(* characters over NameAlphabet.                                           *)

NameAlphabet == {".", "g", "i", "f", "G", " "}

RECURSIVE Names(_)
Names(n) ==
    IF n = 0 THEN {<<>>}
    ELSE LET shorter == Names(n - 1)
         IN  shorter \cup {Append(s, c) : s \in {t \in shorter : Len(t) = n - 1},
                                          c \in NameAlphabet}

\* A file that a request before this one stored
OldFile == os_path_join(UPLOAD_FOLDER_POSTS, uuid4_hex(1) \o <<"_", "g">>)

SaveInit ==
    /\ posts = <<>>
    /\ nextPostId = 1
    /\ products = <<>>
    /\ media = {}
    /\ nextProductId = 1
    /\ nextMediaId = 1
    /\ files \in {{}, {OldFile}}
    /\ nextToken = 2
    /\ response = NoResponse
    /\ removed = {}
    /\ returned = <<>>
    /\ now = 0
    /\ workers = <<>>
    /\ call \in [file          : {Upload(name, <<"image", "/", "gif">>) :
                                      name \in Names(MaxNameLen)},
                  upload_folder : {UPLOAD_FOLDER_POSTS, UPLOAD_FOLDER_PRODUCTS},
                  done          : {FALSE},
                  ret           : {None}]

save_file_call ==
    LET saved == save_file(call.file, call.upload_folder,
                           uuid4_hex(nextToken), files)
    IN  /\ ~call.done
        /\ call' = [call EXCEPT !.done = TRUE, !.ret = saved.ret]
        /\ files' = saved.disk
        /\ nextToken' = nextToken + saved.drawn
        /\ UNCHANGED <<postVars, productVars, response, removed, now, workers>>

SaveSpec == SaveInit /\ [][save_file_call]_vars

----------------------------------------------------------------------------
(* Two PUT /posts/1 requests handled by two threads.  Each request is its  *)
(* handler cut where it reads or writes the table or the disk: load the    *)
(* row, delete the old file, save the new file, commit.                    *)

Workers == {1, 2}

Idle == [pc |-> "idle", request |-> None, existing_url_midia |-> None,
         relative_filepath |-> None]

\* The uploads the two requests carry
ConcRequests ==
    ValidRequests({1}, { <<None, AllowedUpload>>,
                         <<None, Upload(<<"g", ".", "g", "i", "f">>,
                                        <<"image", "/", "gif">>)>> })

\* The post the requests update, as create_post left it: with an uploaded
\* file, with an external URL or with no media
ConcInit ==
    \E part \in { <<None, AllowedUpload>>, <<ExternalUrl, NoFile>>,
                   <<None, NoFile>> } :
        LET saved == save_file(part[2], UPLOAD_FOLDER_POSTS, uuid4_hex(1), {})
            url_midia == IF is_upload(part[2]) THEN saved.ret ELSE part[1]
        IN  /\ posts = (1 :> Post(1, <<"ola">>, <<"imagem">>, url_midia,
                                   TwoPlatforms, datetime(1)))
            /\ nextPostId = 2
            /\ products = <<>>
            /\ media = {}
            /\ nextProductId = 1
            /\ nextMediaId = 1
            /\ files = saved.disk
            /\ nextToken = 1 + saved.drawn
            /\ response = Response("create_post", 201)
            /\ removed = {}
            /\ returned = IF is_upload(part[2]) THEN (1 :> saved.ret)
                          ELSE <<>>
            /\ now = 0
            /\ workers = [w \in Workers |-> Idle]
            /\ call = NoCall

\* Post.query.get_or_404(id) and the reads of the form
load_post(w, request) ==
    /\ workers[w].pc = "idle"
    /\ workers' = [workers EXCEPT ![w] =
                      [pc |-> "loaded", request |-> request,
                       existing_url_midia |-> posts[1].url_midia,
                       relative_filepath |-> None]]
    /\ UNCHANGED <<postVars, productVars, files, nextToken, response, removed,
                   now, call>>

\* delete_file(existing_url_midia) of the upload branch
delete_old_file(w) ==
    LET existing == workers[w].existing_url_midia
        old == IF is_local(existing) THEN delete_file(existing, files)
               ELSE [ret |-> FALSE, disk |-> files, gone |-> {}]
    IN  /\ workers[w].pc = "loaded"
        /\ files' = old.disk
        /\ removed' = removed \cup old.gone
        /\ workers' = [workers EXCEPT ![w].pc = "deleted"]
        /\ UNCHANGED <<postVars, productVars, nextToken, response, now, call>>

\* save_file(file, UPLOAD_FOLDER_POSTS) of the upload branch
save_new_file(w) ==
    LET saved == save_file(workers[w].request.media_file, UPLOAD_FOLDER_POSTS,
                           uuid4_hex(nextToken), files)
    IN  /\ workers[w].pc = "deleted"
        /\ files' = saved.disk
        /\ nextToken' = nextToken + saved.drawn
        /\ workers' = [workers EXCEPT ![w].pc = "saved",
                                      ![w].relative_filepath = saved.ret]
        /\ UNCHANGED <<postVars, productVars, response, removed, now, call>>

\* post.url_midia = relative_filepath, the other fields, db.session.commit()
commit_post(w) ==
    LET request == workers[w].request
    IN  /\ workers[w].pc = "saved"
        /\ posts' = [posts EXCEPT
              ![1].url_midia = workers[w].relative_filepath,
              ![1].legenda = request.legenda,
              ![1].tipo_midia = request.tipo_midia,
              ![1].plataformas = join(",", request.plataformas),
              ![1].data_agendamento =
                  parse_data_agendamento(request.data_agendamento)]
        /\ response' = Response("update_post", 200)
        /\ workers' = [workers EXCEPT ![w].pc = "done"]
        /\ UNCHANGED <<nextPostId, returned, productVars, files, nextToken,
                       removed, now, call>>

ConcNext ==
    \E w \in Workers :
        \/ \E request \in ConcRequests : load_post(w, request)
        \/ delete_old_file(w)
        \/ save_new_file(w)
        \/ commit_post(w)

ConcSpec == ConcInit /\ [][ConcNext]_vars

----------------------------------------------------------------------------
(* Properties of the routes for posts *)

\* Where the file of a stored relative path lies: GET /uploads/<path> serves
\* 'posts/<name>' from uploads/posts and 'products/<name>' from
\* uploads/products
stored_at(relative_path) == <<"uploads", "/">> \o relative_path

\* C1: a post row never keeps a local url_midia that names a file the API
\* itself deleted: a local media file is removed only when its post is
\* deleted or its media reference is replaced or cleared.
C1_LocalMediaNeverDangles ==
    \A id \in DOMAIN posts :
        is_local(posts[id].url_midia)
            => stored_at(posts[id].url_midia) \notin removed

\* C2: when POST /posts fails at the commit (500), no file saved by the
\* request stays in storage and no post row is created.
C2_FailedCreateLeavesNoFile ==
    [][(response'.op = "create_post" /\ response'.code = 500)
          => (files' \subseteq files /\ posts' = posts)]_vars

\* C3: a post created with an allowed upload and later deleted (its row is
\* gone) leaves no file at the media path its creation returned, whatever
\* requests came in between.
C3_CreateDeleteRoundTrip ==
    \A id \in DOMAIN returned :
        id \notin DOMAIN posts => stored_at(returned[id]) \notin files

\* C3 happens: a post created with an upload was deleted by the last
\* request, its file was removed, and another post is still there.
C3_Witness ==
    /\ response = Response("delete_post", 200)
    /\ posts # <<>>
    /\ \E id \in DOMAIN returned :
          /\ id \notin DOMAIN posts
          /\ stored_at(returned[id]) \in removed

\* C5: every post row has a published time if and only if its status is
\* published; create_post stores 'agendado' and no published time, and
\* update_post changes neither.
C5_PublishedTimeIffPublished ==
    \A id \in DOMAIN posts :
        /\ (posts[id].data_publicacao # None)
               <=> (posts[id].status = <<"publicado">>)
        /\ posts[id].status = <<"agendado">>

\* C5 happens: a row created by create_post has just been updated.
C5_Witness ==
    /\ response = Response("update_post", 200)
    /\ \E id \in DOMAIN posts : posts[id].url_midia = ExternalUrl

\* C9: a POST /posts or PUT /posts/<id> answered with 400 leaves the post
\* rows and the files in storage as they were.
C9_BadRequestChangesNothing ==
    [][(response'.code = 400
           /\ response'.op \in {"create_post", "update_post"})
          => (posts' = posts /\ files' = files)]_vars

\* C6: GET /posts returns every row once, ordered by data_agendamento
\* descending.
C6_ListIsNewestFirst ==
    response.op = "get_posts" =>
        LET body == get_posts_json(posts)
            day(i) == fromisoformat(body[i].data_agendamento)[2]
        IN  /\ Len(body) = Cardinality(DOMAIN posts)
            /\ {body[i].id : i \in 1..Len(body)} = DOMAIN posts
            /\ \A i, j \in 1..Len(body) : i < j => day(i) >= day(j)

\* C4: every post that is due (status 'agendado', scheduled time at or
\* before now) eventually leaves the status 'agendado'.
C4_DuePostIsEventuallyPublished ==
    \A id \in 1..MaxPosts :
        (/\ id \in DOMAIN posts
         /\ posts[id].status = <<"agendado">>
         /\ posts[id].data_agendamento[2] <= now)
            ~> (\/ id \notin DOMAIN posts
                \/ posts[id].status \in {<<"publicado">>, <<"falhou">>})

----------------------------------------------------------------------------
(* Properties of the routes for products *)

\* C7: a DELETE /products/<id> that succeeds leaves no ProductMedia row of
\* the product and none of the files those rows referenced, and leaves the
\* rows and the files of every other product as they were.
C7_DeleteProductCascades ==
    [][(response'.op = "delete_product" /\ response'.code = 200) =>
          \E id \in DOMAIN products :
              LET owned == {m \in media : m.product_id = id}
                  theirs == {stored_at(m.url_midia) : m \in owned}
              IN  /\ DOMAIN products' = DOMAIN products \ {id}
                  /\ \A p \in DOMAIN products' : products'[p] = products[p]
                  /\ \A m \in media' : m.product_id # id
                  /\ media' = media \ owned
                  /\ files' \cap theirs = {}
                  /\ files' = files \ theirs]_vars

\* C7 happens: the last request deleted a product, files were removed, and
\* another product still has a media row whose file is in storage.
C7_Witness ==
    /\ response = Response("delete_product", 200)
    /\ removed # {}
    /\ Cardinality(media) < nextMediaId - 1
    /\ \E m \in media :
          /\ m.product_id \in DOMAIN products
          /\ stored_at(m.url_midia) \in files

----------------------------------------------------------------------------
(* Properties of save_file *)

\* The characters after the last dot of a name that has a dot
extension(name) ==
    LET k == CHOOSE i \in 1..Len(name) :
                 name[i] = "." /\ \A j \in (i + 1)..Len(name) : name[j] # "."
    IN  [i \in 1..(Len(name) - k) |-> name[k + i]]

\* The name has no extension, or one that is none of the allowed ones
\* whatever the case of its letters
is_refused(name) ==
    \/ \A i \in 1..Len(name) : name[i] # "."
    \/ ~\E e \in ALLOWED_EXTENSIONS :
           /\ Len(e) = Len(extension(name))
           /\ \A i \in 1..Len(e) : lower_char(extension(name)[i]) = e[i]

\* C8: save_file returns None and writes nothing for a name with no
\* extension or with an extension that is not allowed (case-insensitive);
\* for every other non-empty name it writes exactly one new file and
\* returns '<category>/<token>_<sanitized-name>', the category being the
\* last component of the upload folder.
C8_SaveFileContract ==
    [][(~call.done /\ call'.done) =>
          LET name == call.file.filename
              category == IF call.upload_folder = UPLOAD_FOLDER_POSTS
                          THEN <<"posts">> ELSE <<"products">>
              stored == uuid4_hex(nextToken) \o <<"_">> \o secure_filename(name)
          IN  IF is_refused(name)
              THEN call'.ret = None /\ files' = files
              ELSE name # <<>> =>
                     /\ call'.ret = category \o <<"/">> \o stored
                     /\ files' = files \cup {<<"uploads", "/">> \o call'.ret}
                     /\ Cardinality(files' \ files) = 1]_vars

\* C8 happens: a name with an upper-case extension and a character that
\* is sanitized was saved beside an older file.
C8_Witness ==
    /\ call.done
    /\ call.ret # None
    /\ {"G", " "} \subseteq Range(call.file.filename)
    /\ stored_at(call.ret) \in files
    /\ OldFile \in files

----------------------------------------------------------------------------
(* Properties of concurrent updates *)

\* C10: once two concurrent PUT /posts/<id> requests that each upload an
\* allowed file have completed, the post's url_midia names a file in
\* storage and no file saved by either request is left unreferenced.
C10_NoOrphanAfterConcurrentUpdates ==
    (\A w \in Workers : workers[w].pc = "done") =>
        /\ is_local(posts[1].url_midia)
        /\ stored_at(posts[1].url_midia) \in files
        /\ \A w \in Workers :
              stored_at(workers[w].relative_filepath) \in files
                  => workers[w].relative_filepath = posts[1].url_midia

====
